---- MODULE Spec2Model ----
(***************************************************************************)
(* A model of pinocchio's spec plugin (src/pinocchio/spec.py): the name    *)
(* transforms, the type dispatch, the description resolvers, the           *)
(* switchable output stream and the plugin's lifecycle hooks as the host   *)
(* runner drives them.                                                     *)
(*                                                                         *)
(* A Python string is a sequence of one-character strings (an ANSI escape  *)
(* sequence is one element).  None and a raised IndexError are one-element *)
(* sequences holding a marker no text contains.                            *)
(***************************************************************************)
EXTENDS Integers, Sequences, FiniteSets, TLC

VARIABLES
    phase,            \* where the host runner is in the plugin's lifecycle
    stream,           \* the SpecOutputStream: mode, capture StringIO, and what the
                      \* current call wrote to the on and the off stream
    current_context,  \* Spec.current_context
    spec_doctests,    \* Spec.spec_doctests
    spec_color,       \* options.spec_color, which decides Spec._colorize
    last,             \* the last hook the host called, with the state before it
    since_capture,    \* text written while capturing since the latest capture()
    n_writes,         \* host writes so far
    arg,              \* the input of the function under study
    ret               \* what it returned

vars == <<phase, stream, current_context, spec_doctests, spec_color, last,
          since_capture, n_writes, arg, ret>>

pluginVars == <<phase, stream, current_context, spec_doctests, spec_color, last,
                since_capture, n_writes>>

----------------------------------------------------------------------------
(* Python values *)

PyNone == <<"<None>">>

IndexError == <<"<IndexError>">>

NoneId == "None"

Truthy(s) == s # PyNone /\ s # <<>>

Or(a, b) == IF Truthy(a) THEN a ELSE b

Min(a, b) == IF a < b THEN a ELSE b

Max(a, b) == IF a > b THEN a ELSE b

\* a slice index, clipped as Python clips it
SliceIndex(s, k) == IF k < 0 THEN Max(Len(s) + k, 0) ELSE Min(k, Len(s))

\* s[i:j]
Slice(s, i, j) ==
    LET lo == SliceIndex(s, i)
        hi == SliceIndex(s, j)
    IN  IF hi <= lo THEN <<>> ELSE SubSeq(s, lo + 1, hi)

\* s[:k]
SliceTo(s, k) == Slice(s, 0, k)

\* s[k:]
SliceFrom(s, k) == Slice(s, k, Len(s))

UpperLetters == <<"A","B","C","D","E","F","G","H","I","J","K","L","M",
                  "N","O","P","Q","R","S","T","U","V","W","X","Y","Z">>

LowerLetters == <<"a","b","c","d","e","f","g","h","i","j","k","l","m",
                  "n","o","p","q","r","s","t","u","v","w","x","y","z">>

IsUpper(c) == \E i \in 1..Len(UpperLetters) : UpperLetters[i] = c

IsLower(c) == \E i \in 1..Len(LowerLetters) : LowerLetters[i] = c

lower(c) ==
    IF IsUpper(c)
    THEN LowerLetters[CHOOSE i \in 1..Len(UpperLetters) : UpperLetters[i] = c]
    ELSE c

upper(c) ==
    IF IsLower(c)
    THEN UpperLetters[CHOOSE i \in 1..Len(LowerLetters) : LowerLetters[i] = c]
    ELSE c

IsSpace(c) == c \in {" ", "\n", "\t"}

RECURSIVE lstrip(_)
lstrip(s) == IF s # <<>> /\ IsSpace(Head(s)) THEN lstrip(Tail(s)) ELSE s

RECURSIVE rstrip(_)
rstrip(s) ==
    IF s # <<>> /\ IsSpace(s[Len(s)]) THEN rstrip(SubSeq(s, 1, Len(s) - 1)) ELSE s

strip(s) == lstrip(rstrip(s))

\* str.replace(x, y): the non-overlapping occurrences of x, left to right
RECURSIVE replace(_, _, _)
replace(s, x, y) ==
    IF Len(s) < Len(x) \/ x = <<>> THEN s
    ELSE IF SubSeq(s, 1, Len(x)) = x
         THEN y \o replace(SubSeq(s, Len(x) + 1, Len(s)), x, y)
         ELSE <<Head(s)>> \o replace(Tail(s), x, y)

\* str.capitalize()
capitalize(s) ==
    IF s = <<>> THEN s
    ELSE <<upper(Head(s))>> \o [i \in 1..(Len(s) - 1) |-> lower(s[i + 1])]

Contains(s, c) == \E i \in 1..Len(s) : s[i] = c

\* the index of the last c in s
LastIndex(s, c) == CHOOSE i \in 1..Len(s) : s[i] = c /\ \A j \in (i + 1)..Len(s) : s[j] # c

RECURSIVE join(_, _)
join(sep, parts) ==
    IF parts = <<>> THEN <<>>
    ELSE IF Len(parts) = 1 THEN parts[1]
    ELSE parts[1] \o sep \o join(sep, Tail(parts))

RECURSIVE Flatten(_)
Flatten(parts) == IF parts = <<>> THEN <<>> ELSE Head(parts) \o Flatten(Tail(parts))

----------------------------------------------------------------------------
(* Name transforms *)

Test_ == <<"T","e","s","t">>

test_lead == <<"t","e","s","t","_">>

test_trail == <<"_","t","e","s","t">>

remove_leading(needle, haystack) ==
    IF SliceTo(haystack, Len(needle)) = needle
    THEN SliceFrom(haystack, Len(needle))
    ELSE haystack

remove_trailing(needle, haystack) ==
    IF SliceFrom(haystack, 0 - Len(needle)) = needle
    THEN SliceTo(haystack, 0 - Len(needle))
    ELSE haystack

remove_leading_and_trailing(needle, haystack) ==
    remove_leading(needle, remove_trailing(needle, haystack))

wordize(c) == <<" ", lower(c)>>

\* re.sub(r'([A-Z])', wordize, s)
RECURSIVE sub_upper(_)
sub_upper(s) ==
    IF s = <<>> THEN <<>>
    ELSE (IF IsUpper(Head(s)) THEN wordize(Head(s)) ELSE <<Head(s)>>) \o sub_upper(Tail(s))

\* string[0] raises IndexError on the empty string
camel2word(string) ==
    IF string = <<>> THEN IndexError
    ELSE <<string[1]>> \o sub_upper(SliceFrom(string, 1))

Contractions ==
    << << <<"d","o","n","t">>, <<"d","o","n","'","t">> >>,
       << <<"d","o","e","s","n","t">>, <<"d","o","e","s","n","'","t">> >>,
       << <<"w","o","n","t">>, <<"w","o","n","'","t">> >>,
       << <<"w","a","s","n","t">>, <<"w","a","s","n","'","t">> >> >>

RECURSIVE complete_from(_, _)
complete_from(string, i) ==
    IF i > Len(Contractions) THEN string
    ELSE complete_from(replace(string, Contractions[i][1], Contractions[i][2]), i + 1)

complete_english(string) == complete_from(string, 1)

underscore2word(string) == replace(string, <<"_">>, <<" ">>)

underscored2spec(name) ==
    complete_english(underscore2word(remove_trailing(test_trail, remove_leading(test_lead, name))))

camelcase2spec(name) == camel2word(remove_leading_and_trailing(Test_, name))

\* inspect.getdoc(object) or camelcase2spec(object.__name__)
camelcaseDescription(object) ==
    IF Truthy(object.doc) THEN object.doc ELSE camelcase2spec(object.name)

\* inspect.getdoc(object) or underscored2spec(object.__name__).capitalize()
underscoredDescription(object) ==
    IF Truthy(object.doc) THEN object.doc ELSE capitalize(underscored2spec(object.name))

----------------------------------------------------------------------------
(* Type dispatch *)

\* isinstance(instance, type): instance.types holds the classes of its MRO
isinstance(instance, type) == type \in instance.types

\* the entries of the table the instance matches: type is True or isinstance
Matches(dispatch_table, instance) ==
    {i \in 1..Len(dispatch_table) :
        dispatch_table[i][1] = "True" \/ isinstance(instance, dispatch_table[i][1])}

RECURSIVE funcs_from(_, _, _)
funcs_from(dispatch_table, instance, i) ==
    IF i > Len(dispatch_table) THEN <<>>
    ELSE (IF i \in Matches(dispatch_table, instance)
          THEN <<dispatch_table[i][2]>> ELSE <<>>)
         \o funcs_from(dispatch_table, instance, i + 1)

\* a dispatch that goes on after the first match
dispatch_every_match(dispatch_table, instance) == funcs_from(dispatch_table, instance, 1)

\* The handlers dispatch_on_type calls, in order: the func of the first matching
\* entry, whose result it returns, or none, falling off the loop to return None.
dispatch_on_type(dispatch_table, instance) ==
    LET m == Matches(dispatch_table, instance)
    IN  IF m = {} THEN <<>>
        ELSE LET i == CHOOSE k \in m : \A j \in m : k <= j
             IN  <<dispatch_table[i][2]>>

----------------------------------------------------------------------------
(* Descriptions *)

Digits == <<"0","1","2","3","4","5","6","7","8","9">>

\* str(n) of a natural number
RECURSIVE str(_)
str(n) == IF n < 10 THEN <<Digits[n + 1]>> ELSE str(n \div 10) \o <<Digits[(n % 10) + 1]>>

holds_for == <<"h","o","l","d","s"," ","f","o","r"," ">>

throws_ == <<"t","h","r","o","w","s"," ","\"">>

returns_ == <<"r","e","t","u","r","n","s"," ">>

\* a description is a string (None included), or the generator of a doctest's specs
StrDesc(s) == [kind |-> "str", val |-> s]

GenDesc(specs) == [kind |-> "gen", val |-> specs]

NoDesc == StrDesc(PyNone)

doctestContextDescription(doctest) == doctest.dt_name

\* inspect.getdoc(test.method) or underscored2spec(test.method.__name__)
noseMethodDescription(test) == Or(test.method_doc, underscored2spec(test.method_name))

unittestMethodDescription(test) == Or(test.testMethodDoc, underscored2spec(test.testMethodName))

\* a generator's yielded test described by the function itself
noseFunctionDescription_plain(test) == Or(test.func_doc, underscored2spec(test.func_name))

noseFunctionDescription(test) ==
    IF test.descriptor # NoneId
    THEN IF test.has_description
         THEN test.description
         ELSE holds_for \o join(<<",", " ">>, [i \in 1..Len(test.arg) |-> str(test.arg[i])])
    ELSE Or(test.func_doc, underscored2spec(test.func_name))

\* source.replace("\n", " ")
example_line(ex) == replace(ex.source, <<"\n">>, <<" ">>)

\* one example's want: a falsy value when it yields nothing
example_want(ex) ==
    LET source == example_line(ex)
    IN  IF Contains(source, "#")
        THEN SliceFrom(source, LastIndex(source, "#"))
        ELSE IF Truthy(ex.exc_msg)
        THEN throws_ \o rstrip(ex.exc_msg) \o <<"\"">>
        ELSE IF Truthy(ex.want)
        THEN returns_ \o replace(ex.want, <<"\n">>, <<" ">>)
        ELSE PyNone

\* one example's source: what is left of the last '#' when there is one
example_source(ex) ==
    LET source == example_line(ex)
    IN  IF Contains(source, "#")
        THEN SliceTo(source, LastIndex(source, "#") - 1)
        ELSE source

\* the loop body: the specs one example yields, none or one
example_specs(ex) ==
    IF Truthy(example_want(ex))
    THEN << strip(example_source(ex)) \o <<" ">> \o strip(example_want(ex)) >>
    ELSE <<>>

\* the specs yielded for examples[i..], in order
RECURSIVE examples_from(_, _)
examples_from(examples, i) ==
    IF i > Len(examples) THEN <<>>
    ELSE example_specs(examples[i]) \o examples_from(examples, i + 1)

doctestExamplesDescription(test) == examples_from(test.examples, 1)

supported_test_types ==
    << <<"MethodTestCase", "noseMethodDescription">>,
       <<"FunctionTestCase", "noseFunctionDescription">>,
       <<"DocTestCase", "doctestExamplesDescription">>,
       <<"TestCase", "unittestMethodDescription">> >>

\* func(instance) for the handlers of supported_test_types
call_description(func, instance) ==
    CASE func = "noseMethodDescription" -> StrDesc(noseMethodDescription(instance))
      [] func = "noseFunctionDescription" -> StrDesc(noseFunctionDescription(instance))
      [] func = "doctestExamplesDescription" -> GenDesc(doctestExamplesDescription(instance))
      [] func = "unittestMethodDescription" -> StrDesc(unittestMethodDescription(instance))

\* test is the host's wrapper; test.test is the record itself
testDescription(test) ==
    LET funcs == dispatch_on_type(supported_test_types, test)
    IN  IF funcs = <<>> THEN NoDesc ELSE call_description(funcs[1], test)

supported_context_types ==
    << <<"ModuleType", "underscoredDescription">>,
       <<"FunctionType", "underscoredDescription">>,
       <<"DocTestCase", "doctestContextDescription">>,
       <<"ClassType", "camelcaseDescription">>,
       <<"type", "camelcaseDescription">> >>

call_context_description(func, instance) ==
    CASE func = "underscoredDescription" -> underscoredDescription(instance)
      [] func = "doctestContextDescription" -> doctestContextDescription(instance)
      [] func = "camelcaseDescription" -> camelcaseDescription(instance)

contextDescription(context) ==
    LET funcs == dispatch_on_type(supported_context_types, context)
    IN  IF funcs = <<>> THEN PyNone ELSE call_context_description(funcs[1], context)

\* the id of the context object: the generator, the doctest itself, or test.context
testContext(test) ==
    IF isinstance(test, "FunctionTestCase") /\ test.descriptor # NoneId
    THEN test.descriptor
    ELSE IF isinstance(test, "DocTestCase")
    THEN test.id
    ELSE test.context

----------------------------------------------------------------------------
(* Output stream that can be enabled and disabled *)

\* StringIO.truncate() with no size truncates at the current position
StringIO_truncate(sio) == [buf |-> SliceTo(sio.buf, sio.pos), pos |-> sio.pos]

\* StringIO.write(s) writes at the current position, over what is there
StringIO_write(sio, s) ==
    LET pad == IF sio.pos > Len(sio.buf)
               THEN [i \in 1..(sio.pos - Len(sio.buf)) |-> "\\0"] ELSE <<>>
        buf == sio.buf \o pad
    IN  [buf |-> SliceTo(buf, sio.pos) \o s \o SliceFrom(buf, sio.pos + Len(s)),
         pos |-> sio.pos + Len(s)]

StringIO_seek(sio, pos) == [sio EXCEPT !.pos = pos]

\* StringIO.read(): the text from the position on
StringIO_read_text(sio) == SliceFrom(sio.buf, sio.pos)

StringIO_read(sio) == [sio EXCEPT !.pos = Max(sio.pos, Len(sio.buf))]

\* OutputStream.__init__: self.stream = on_stream
OutputStream_init ==
    [mode |-> "on", on_stream |-> <<>>, off_stream |-> <<>>,
     capture_stream |-> [buf |-> <<>>, pos |-> 0]]

on(st) == [st EXCEPT !.mode = "on"]

\* an off() that leaves the stream as it is
off_noop(st) == st

off(st) == [st EXCEPT !.mode = "off"]

capture(st) ==
    [st EXCEPT !.capture_stream = StringIO_truncate(st.capture_stream),
               !.mode = "capture"]

\* get_captured(): the stream after the seek and the read
get_captured(st) ==
    [st EXCEPT !.capture_stream = StringIO_read(StringIO_seek(st.capture_stream, 0))]

\* what get_captured() returns
get_captured_text(st) == StringIO_read_text(StringIO_seek(st.capture_stream, 0))

\* _WritelnDecorator.__getattr__: write goes to self.stream
write(st, text) ==
    CASE st.mode = "on" -> [st EXCEPT !.on_stream = Append(@, text)]
      [] st.mode = "off" -> [st EXCEPT !.off_stream = Append(@, text)]
      [] st.mode = "capture" ->
            [st EXCEPT !.capture_stream = StringIO_write(@, text)]

\* _WritelnDecorator.writeln(arg): if arg: write(arg); write('\n')
writeln(st, text) == write(IF Truthy(text) THEN write(st, text) ELSE st, <<"\n">>)

\* a print_text that puts the stream back as it found it
print_text_restore(st, text) == [write(on(st), text) EXCEPT !.mode = st.mode]

print_text(st, text) == off(write(on(st), text))

print_line(st, line) == print_text(st, line \o <<"\n">>)

\* "%s" % None is 'None'
Format(s) == IF s = PyNone THEN <<"N","o","n","e">> ELSE s

print_context(st, context) ==
    print_line(st, <<"\n">> \o Format(contextDescription(context)))

\* text.splitlines(True): the lines of text, each with its line end
RECURSIVE splitlines(_)
splitlines(text) ==
    IF text = <<>> THEN <<>>
    ELSE IF Contains(text, "\n")
    THEN LET i == CHOOSE k \in 1..Len(text) :
                      text[k] = "\n" /\ \A j \in 1..(k - 1) : text[j] # "\n"
         IN  <<SubSeq(text, 1, i)>> \o splitlines(SubSeq(text, i + 1, Len(text)))
    ELSE <<text>>

color_end == "ESC[1;0m"

colors(color) ==
    CASE color = "green" -> "ESC[1;32m"
      [] color = "red" -> "ESC[1;31m"
      [] color = "yellow" -> "ESC[1;33m"

in_color(color, text) ==
    LET lines == splitlines(text)
    IN  Flatten([i \in 1..Len(lines) |-> <<colors(color)>> \o lines[i] \o <<color_end>>])

\* colorized(text): colorized is a colour's name, or "plain" for the identity
colorized_text(colorized, text) ==
    IF colorized = "plain" THEN text ELSE in_color(colorized, text)

\* a _print_spec that drops the status
SpecOutputStream_print_spec_no_status(st, colorized, spec, status) ==
    print_line(st, colorized_text(colorized, <<"-", " ">> \o Format(spec)))

SpecOutputStream_print_spec(st, colorized, spec, status) ==
    IF Truthy(status)
    THEN print_line(st, colorized_text(colorized,
             <<"-", " ">> \o Format(spec) \o <<" ", "(">> \o status \o <<")">>))
    ELSE print_line(st, colorized_text(colorized, <<"-", " ">> \o Format(spec)))

\* for s in spec: self._print_spec(colorized, s, status)
RECURSIVE print_specs_from(_, _, _, _, _)
print_specs_from(st, colorized, specs, status, i) ==
    IF i > Len(specs) THEN st
    ELSE print_specs_from(SpecOutputStream_print_spec(st, colorized, specs[i], status),
                          colorized, specs, status, i + 1)

print_spec(st, colorized, test, status) ==
    LET spec == testDescription(test)
    IN  IF spec.kind = "gen"
        THEN print_specs_from(st, colorized, spec.val, status, 1)
        ELSE IF Truthy(spec.val)
        THEN SpecOutputStream_print_spec(st, colorized, spec.val, status)
        ELSE st

----------------------------------------------------------------------------
(* The objects the host hands to the plugin.  A test record is test.test;   *)
(* its context field is test.context.                                       *)

Object ==
    [id |-> NoneId, types |-> {}, context |-> NoneId, descriptor |-> NoneId,
     has_description |-> FALSE, description |-> PyNone, arg |-> <<>>,
     method_doc |-> PyNone, method_name |-> <<>>,
     func_doc |-> PyNone, func_name |-> <<>>,
     testMethodDoc |-> PyNone, testMethodName |-> <<"r","u","n","T","e","s","t">>,
     doc |-> PyNone, name |-> <<>>, dt_name |-> <<>>, examples |-> <<>>]

Example(source, exc_msg, want) == [source |-> source, exc_msg |-> exc_msg, want |-> want]

\* class TestFoo
ClsA == [Object EXCEPT !.id = "ClsA", !.types = {"type"},
                       !.name = <<"T","e","s","t","F","o","o">>]

\* module test_b
ModB == [Object EXCEPT !.id = "ModB", !.types = {"ModuleType"},
                       !.name = <<"t","e","s","t","_","b">>]

\* generator function test_g
GenG == [Object EXCEPT !.id = "GenG", !.types = {"FunctionType"},
                       !.name = <<"t","e","s","t","_","g">>]

\* an old-style class with a docstring
ClsX == [Object EXCEPT !.id = "ClsX", !.types = {"ClassType"},
                       !.doc = <<"O","d","d">>]

\* TestFoo.test_dont_fly, run by nose
M1 == [Object EXCEPT !.id = "M1", !.types = {"MethodTestCase", "TestCase"},
                     !.context = "ClsA",
                     !.method_name = <<"t","e","s","t","_","d","o","n","t","_","f","l","y">>]

\* a unittest.TestCase method of TestFoo with a two-line docstring
U1 == [Object EXCEPT !.id = "U1", !.types = {"TestCase"}, !.context = "ClsA",
                     !.testMethodDoc = <<"p","\n","q">>,
                     !.testMethodName = <<"t","e","s","t","_","u">>]

\* function test_f of module test_b
F1 == [Object EXCEPT !.id = "F1", !.types = {"FunctionTestCase", "TestCase"},
                     !.context = "ModB",
                     !.func_name = <<"t","e","s","t","_","f">>]

\* a test yielded by generator test_g of module test_b with arguments (2, 8)
G1 == [Object EXCEPT !.id = "G1", !.types = {"FunctionTestCase", "TestCase"},
                     !.context = "ModB", !.descriptor = "GenG", !.arg = <<2, 8>>,
                     !.func_doc = <<"g","d","o","c">>,
                     !.func_name = <<"t","e","s","t","_","g">>]

\* a doctest: one example with an output, one with nothing to tell
D1 == [Object EXCEPT !.id = "D1", !.types = {"DocTestCase", "TestCase"},
                     !.context = "ModB", !.dt_name = <<"m",".","f">>,
                     !.examples = << Example(<<"a","\n">>, PyNone, <<"5","\n">>),
                                     Example(<<"b","\n">>, PyNone, <<>>) >>]

\* a test object of none of the supported types
X1 == [Object EXCEPT !.id = "X1", !.context = "ClsX"]

Tests == {M1, U1, F1, G1, D1, X1}

\* the object a context id names
ContextObject(id) ==
    CASE id = "ClsA" -> ClsA
      [] id = "ModB" -> ModB
      [] id = "GenG" -> GenG
      [] id = "ClsX" -> ClsX
      [] id = "D1" -> D1

\* err[1]: the values the host may pass to addError
Errors ==
    {[id |-> "DeprecatedTest", types |-> {"DeprecatedTest", "Exception"}],
     [id |-> "SkipTest", types |-> {"SkipTest", "Exception"}],
     [id |-> "ValueError", types |-> {"ValueError", "Exception"}]}

HostTexts == {<<".">>}

----------------------------------------------------------------------------
(* Plugin itself *)

MaxWrites == 3

\* self._colorize(color): in_color with that colour, or the identity
Spec_colorize(color) == IF spec_color THEN color ELSE "plain"

Spec_print_context(st, context) ==
    IF isinstance(ContextObject(context), "DocTestCase") /\ ~spec_doctests
    THEN st
    ELSE print_context(st, ContextObject(context))

\* a _print_spec that prints doctest specs whatever the option says
Spec_print_spec_always(st, color, test, status) ==
    print_spec(st, Spec_colorize(color), test, status)

Spec_print_spec(st, color, test, status) ==
    IF isinstance(test, "DocTestCase") /\ ~spec_doctests
    THEN st
    ELSE print_spec(st, Spec_colorize(color), test, status)

FAILED == <<"F","A","I","L","E","D">>

ERROR == <<"E","R","R","O","R">>

SKIPPED == <<"S","K","I","P","P","E","D">>

DEPRECATED == <<"D","E","P","R","E","C","A","T","E","D">>

supported_error_types ==
    << <<"DeprecatedTest", "DEPRECATED">>,
       <<"SkipTest", "SKIPPED">>,
       <<"True", "ERROR">> >>

\* print_spec_func(color, message)(_)
call_print_spec_func(st, func, test) ==
    CASE func = "DEPRECATED" -> Spec_print_spec(st, "yellow", test, DEPRECATED)
      [] func = "SKIPPED" -> Spec_print_spec(st, "yellow", test, SKIPPED)
      [] func = "ERROR" -> Spec_print_spec(st, "red", test, ERROR)

RECURSIVE call_print_spec_funcs(_, _, _, _)
call_print_spec_funcs(st, funcs, test, i) ==
    IF i > Len(funcs) THEN st
    ELSE call_print_spec_funcs(call_print_spec_func(st, funcs[i], test), funcs, test, i + 1)

\* The on and the off stream are write-only (the real stream, the null device):
\* the model keeps of each what the current call wrote to it.
entered(st) == [st EXCEPT !.on_stream = <<>>, !.off_stream = <<>>]

Snapshot ==
    [mode |-> stream.mode, capture_stream |-> stream.capture_stream,
     current_context |-> current_context, phase |-> phase]

Called(op, test, err) == [op |-> op, test |-> test, err |-> err, before |-> Snapshot]

NoCall ==
    [op |-> "none", test |-> NoneId, err |-> NoneId,
     before |-> [mode |-> "on", capture_stream |-> [buf |-> <<>>, pos |-> 0],
                 current_context |-> "unset",
                 phase |-> [at |-> "configured", test |-> NoneId]]]

pureVars == <<arg, ret>>

\* the plugin configured and given its stream (configure, setOutputStream)
Init ==
    /\ phase = [at |-> "configured", test |-> NoneId]
    /\ stream = OutputStream_init
    /\ current_context = "unset"
    /\ spec_doctests \in BOOLEAN
    /\ spec_color \in BOOLEAN
    /\ last = NoCall
    /\ since_capture = <<>>
    /\ n_writes = 0
    /\ arg = <<>>
    /\ ret = <<>>

begin ==
    /\ phase.at = "configured"
    /\ current_context' = NoneId
    /\ stream' = entered(stream)
    /\ phase' = [at |-> "idle", test |-> NoneId]
    /\ last' = Called("begin", NoneId, NoneId)
    /\ UNCHANGED <<spec_doctests, spec_color, since_capture, n_writes, pureVars>>

\* a beforeTest that does not remember the context it printed
beforeTest_forgets(test) ==
    /\ phase.at = "idle"
    /\ LET context == testContext(test)
       IN  /\ stream' = off(IF context # current_context
                            THEN Spec_print_context(entered(stream), context)
                            ELSE entered(stream))
           /\ current_context' = current_context
    /\ phase' = [at |-> "running", test |-> test.id]
    /\ last' = Called("beforeTest", test.id, NoneId)
    /\ UNCHANGED <<spec_doctests, spec_color, since_capture, n_writes, pureVars>>

beforeTest(test) ==
    /\ phase.at = "idle"
    /\ LET context == testContext(test)
       IN  /\ stream' = off(IF context # current_context
                            THEN Spec_print_context(entered(stream), context)
                            ELSE entered(stream))
           /\ current_context' = context
    /\ phase' = [at |-> "running", test |-> test.id]
    /\ last' = Called("beforeTest", test.id, NoneId)
    /\ UNCHANGED <<spec_doctests, spec_color, since_capture, n_writes, pureVars>>

\* the host calls an outcome hook for the running test, or for any test between tests
HookFor(test) ==
    /\ phase.at \in {"idle", "running"}
    /\ phase.at = "running" => test.id = phase.test
    /\ UNCHANGED <<phase, current_context, spec_doctests, spec_color, since_capture,
                   n_writes, pureVars>>

addSuccess(test) ==
    /\ HookFor(test)
    /\ stream' = Spec_print_spec(entered(stream), "green", test, PyNone)
    /\ last' = Called("addSuccess", test.id, NoneId)

addFailure(test) ==
    /\ HookFor(test)
    /\ stream' = Spec_print_spec(entered(stream), "red", test, FAILED)
    /\ last' = Called("addFailure", test.id, NoneId)

addError(test, err) ==
    /\ HookFor(test)
    /\ stream' = call_print_spec_funcs(entered(stream),
                     dispatch_on_type(supported_error_types, err), test, 1)
    /\ last' = Called("addError", test.id, err.id)

afterTest ==
    /\ phase.at = "running"
    /\ stream' = capture(entered(stream))
    /\ since_capture' = <<>>
    /\ phase' = [at |-> "idle", test |-> NoneId]
    /\ last' = Called("afterTest", phase.test, NoneId)
    /\ UNCHANGED <<current_context, spec_doctests, spec_color, n_writes, pureVars>>

finalize ==
    /\ phase.at = "idle"
    /\ LET st == on(entered(stream))
       IN  stream' = writeln(get_captured(st), get_captured_text(st))
    /\ phase' = [at |-> "done", test |-> NoneId]
    /\ last' = Called("finalize", NoneId, NoneId)
    /\ UNCHANGED <<current_context, spec_doctests, spec_color, since_capture,
                   n_writes, pureVars>>

\* the host writes to the stream setOutputStream gave it
HostWrite(text) ==
    /\ phase.at \in {"configured", "idle", "running"}
    /\ n_writes < MaxWrites
    /\ stream' = write(entered(stream), text)
    /\ since_capture' = IF stream.mode = "capture" THEN since_capture \o text
                        ELSE since_capture
    /\ n_writes' = n_writes + 1
    /\ last' = Called("write", NoneId, NoneId)
    /\ UNCHANGED <<phase, current_context, spec_doctests, spec_color, pureVars>>

Next ==
    \/ begin
    \/ \E test \in Tests : beforeTest(test)
    \/ \E test \in Tests : addSuccess(test)
    \/ \E test \in Tests : addFailure(test)
    \/ \E test \in Tests, err \in Errors : addError(test, err)
    \/ afterTest
    \/ finalize
    \/ \E text \in HostTexts : HostWrite(text)

Spec == Init /\ [][Next]_vars

----------------------------------------------------------------------------
(* What the last call did *)

Hooks == {"addSuccess", "addFailure", "addError"}

TestById(id) == CHOOSE t \in Tests : t.id = id

LastTest == TestById(last.test)

EscapeCodes == {"ESC[1;32m", "ESC[1;31m", "ESC[1;33m", "ESC[1;0m"}

\* a text without its escape sequences
Uncoloured(text) == SelectSeq(text, LAMBDA c : c \notin EscapeCodes)

\* the specs print_spec has to print for a test: the strings of its description
SpecsOf(test) ==
    LET d == testDescription(test)
    IN  IF d.kind = "gen" THEN d.val
        ELSE IF Truthy(d.val) THEN <<d.val>> ELSE <<>>

IsDoctest(test) == "DocTestCase" \in test.types

\* the status and the colour the last outcome hook stands for
StatusOfLast ==
    CASE last.op = "addSuccess" -> <<>>
      [] last.op = "addFailure" -> <<" ", "(", "F","A","I","L","E","D", ")">>
      [] last.op = "addError" /\ last.err = "DeprecatedTest" ->
            <<" ", "(", "D","E","P","R","E","C","A","T","E","D", ")">>
      [] last.op = "addError" /\ last.err = "SkipTest" ->
            <<" ", "(", "S","K","I","P","P","E","D", ")">>
      [] OTHER -> <<" ", "(", "E","R","R","O","R", ")">>

ColourOfLast ==
    CASE last.op = "addSuccess" -> "ESC[1;32m"
      [] last.op = "addFailure" -> "ESC[1;31m"
      [] last.op = "addError" /\ last.err \in {"DeprecatedTest", "SkipTest"} -> "ESC[1;33m"
      [] OTHER -> "ESC[1;31m"

\* a chunk written by print_spec: "- ..." and a line end, colour left aside
IsSpecLine(chunk) ==
    LET text == Uncoloured(chunk)
    IN  /\ Len(text) >= 3
        /\ text[1] = "-" /\ text[2] = " "
        /\ text[Len(text)] = "\n"

\* C1: while a test runs (after beforeTest, before afterTest) the stream is off;
\* a host write then goes to the off stream alone, and an outcome hook puts
\* nothing but spec lines on the on stream and nothing in the capture buffer.
C1_OnlySpecLinesWhileTestRuns ==
    /\ phase.at = "running" => stream.mode = "off"
    /\ last.before.phase.at = "running" /\ last.op = "write" =>
          /\ stream.on_stream = <<>>
          /\ stream.capture_stream = last.before.capture_stream
          /\ Len(stream.off_stream) = 1 /\ stream.off_stream[1] \in HostTexts
    /\ last.before.phase.at = "running" /\ last.op \in Hooks =>
          /\ \A i \in 1..Len(stream.on_stream) : IsSpecLine(stream.on_stream[i])
          /\ stream.off_stream = <<>>
          /\ stream.capture_stream = last.before.capture_stream

\* a host write while a test runs, after the test's context header was printed
C1_Witness ==
    /\ last.op = "write"
    /\ last.before.phase.at = "running"
    /\ stream.off_stream # <<>>
    /\ current_context = testContext(TestById(phase.test))

\* C2: beforeTest prints a context header exactly when testContext(test) differs
\* from current_context (None after begin) and is not a doctest with doctests
\* disabled; the header is one line; a test with the context of the test before
\* it prints none; afterwards current_context is testContext(test).
C2_HeaderWhenContextChanges ==
    last.op = "beforeTest" =>
        LET context == testContext(LastTest)
            hidden == IsDoctest(ContextObject(context)) /\ ~spec_doctests
            header == stream.on_stream
        IN  /\ header # <<>> <=> (context # last.before.current_context /\ ~hidden)
            /\ header # <<>> =>
                  /\ Len(header) = 1
                  /\ header[1] = <<"\n">> \o contextDescription(ContextObject(context))
                                          \o <<"\n">>
            /\ context = last.before.current_context => header = <<>>
            /\ current_context = context

\* a second test of the context the test before it had: no header
C2_Witness ==
    /\ last.op = "beforeTest"
    /\ last.before.current_context = testContext(LastTest)
    /\ last.before.current_context = "ClsA"
    /\ stream.on_stream = <<>>

\* C3: an outcome hook prints each spec of the test once, as "- <spec>" followed
\* by the one status of the hook (none for addSuccess, FAILED for addFailure,
\* DEPRECATED / SKIPPED / ERROR for addError by the error's type), in the hook's
\* colour (green; red; yellow, yellow, red) when colour is enabled and with no
\* escape sequence when it is not.
C3_OneStatusAndColour ==
    last.op \in Hooks =>
        LET specs == IF IsDoctest(LastTest) /\ ~spec_doctests
                     THEN <<>> ELSE SpecsOf(LastTest)
            lines == stream.on_stream
        IN  /\ Len(lines) = Len(specs)
            /\ \A i \in 1..Len(lines) :
                  /\ Uncoloured(lines[i]) =
                        <<"-", " ">> \o specs[i] \o StatusOfLast \o <<"\n">>
                  /\ \A k \in 1..Len(lines[i]) :
                        lines[i][k] \in EscapeCodes =>
                            lines[i][k] \in {ColourOfLast, color_end}
                  /\ spec_color => lines[i][1] = ColourOfLast
                  /\ ~spec_color => Uncoloured(lines[i]) = lines[i]

\* a skipped test printed in yellow
C3_Witness ==
    /\ last.op = "addError"
    /\ last.err = "SkipTest"
    /\ spec_color
    /\ stream.on_stream # <<>>
    /\ stream.on_stream[1][1] = "ESC[1;33m"

\* C4: with doctest support disabled, beforeTest and the outcome hooks write
\* nothing to the on stream for a doctest; with it enabled a doctest gets its
\* header when its context is new and one line per spec from every outcome hook.
C4_DoctestsOnlyWhenEnabled ==
    last.op \in Hooks \cup {"beforeTest"} /\ IsDoctest(LastTest) =>
        /\ ~spec_doctests => stream.on_stream = <<>>
        /\ spec_doctests /\ last.op = "beforeTest"
              /\ last.before.current_context # LastTest.id =>
                 Len(stream.on_stream) = 1
        /\ spec_doctests /\ last.op \in Hooks =>
              /\ Len(stream.on_stream) = Len(SpecsOf(LastTest))
              /\ stream.on_stream # <<>>

\* a failed doctest with doctest support disabled
C4_Witness ==
    /\ ~spec_doctests
    /\ last.op = "addFailure"
    /\ IsDoctest(LastTest)
    /\ last.before.phase.at = "running"

\* C8: finalize writes to the on stream the text captured since the latest
\* capture(), and a newline: nothing an earlier capture period recorded.
C8_FinalizePrintsLatestCapture ==
    last.op = "finalize" =>
        Flatten(stream.on_stream) = since_capture \o <<"\n">>

\* C10: a call that prints writes to the on stream only and leaves the stream
\* off, whatever mode it found; an outcome hook that prints nothing leaves the
\* mode as it found it.
C10_PrintLeavesStreamOff ==
    /\ last.op \in Hooks \cup {"beforeTest"} /\ stream.on_stream # <<>> =>
          /\ stream.mode = "off"
          /\ stream.off_stream = <<>>
          /\ stream.capture_stream = last.before.capture_stream
    /\ last.op \in Hooks /\ stream.on_stream = <<>> =>
          /\ stream.mode = last.before.mode
          /\ stream.off_stream = <<>>
          /\ stream.capture_stream = last.before.capture_stream

\* an outcome hook that printed while the stream was capturing
C10_Witness ==
    /\ last.op \in Hooks
    /\ last.before.mode = "capture"
    /\ stream.on_stream # <<>>
    /\ stream.mode = "off"

----------------------------------------------------------------------------
(* The pure functions, applied to inputs built up to a bound *)

\* the plugin left as configured while a function is studied
PluginAtRest ==
    /\ phase = [at |-> "configured", test |-> NoneId]
    /\ stream = OutputStream_init
    /\ current_context = "unset"
    /\ spec_doctests = FALSE
    /\ spec_color = FALSE
    /\ last = NoCall
    /\ since_capture = <<>>
    /\ n_writes = 0

NotCalled == [called |-> FALSE, val |-> <<>>]

Returned(val) == [called |-> TRUE, val |-> val]

(* camelcase2spec *)

MaxPieces == 3

\* a class name is put together from letters and whole "Test"s
Pieces == {<<"T">>, <<"e">>, <<"s">>, <<"t">>, <<"A">>, <<"b">>, Test_}

InitCamel == PluginAtRest /\ arg = [name |-> <<>>, pieces |-> 0] /\ ret = NotCalled

AppendPiece(piece) ==
    /\ ~ret.called
    /\ arg.pieces < MaxPieces
    /\ arg' = [name |-> arg.name \o piece, pieces |-> arg.pieces + 1]
    /\ UNCHANGED <<ret, pluginVars>>

CallCamelcase2spec ==
    /\ ~ret.called
    /\ arg.name # <<>>
    /\ ret' = Returned(camelcase2spec(arg.name))
    /\ UNCHANGED <<arg, pluginVars>>

NextCamel == (\E piece \in Pieces : AppendPiece(piece)) \/ CallCamelcase2spec

SpecCamel == InitCamel /\ [][NextCamel]_vars

StartsWithTest(name) == Len(name) >= 4 /\ SubSeq(name, 1, 4) = Test_

EndsWithTest(name) == Len(name) >= 4 /\ SubSeq(name, Len(name) - 3, Len(name)) = Test_

\* the name without one trailing and one leading "Test"
Stem(name) ==
    LET cut == IF EndsWithTest(name) THEN SubSeq(name, 1, Len(name) - 4) ELSE name
    IN  IF StartsWithTest(cut) THEN SubSeq(cut, 5, Len(cut)) ELSE cut

\* the first character as it is, a later capital as a space and its lowercase
Worded(stem) ==
    Flatten([i \in 1..Len(stem) |->
                IF i > 1 /\ IsUpper(stem[i]) THEN <<" ", lower(stem[i])>> ELSE <<stem[i]>>])

\* C7: for every non-empty class name camelcase2spec returns a string: the name
\* without a leading and a trailing "Test", its first character kept and every
\* later capital replaced by a space and the lowercase letter.
C7_CamelcaseSpecOfEveryName ==
    ret.called => ret.val # IndexError /\ ret.val = Worded(Stem(arg.name))

(* doctestExamplesDescription *)

MaxExamples == 2

\* a; a # c; a #; a # b #c; x='#'; and a source of two lines
ExampleSources ==
    { <<"a","\n">>, <<"a"," ","#"," ","c","\n">>, <<"a"," ","#","\n">>,
      <<"a"," ","#"," ","b"," ","#","c","\n">>, <<"x","=","'","#","'","\n">>,
      <<"i",":","\n"," ","a","\n">> }

ExampleMessages == { PyNone, <<"E",":"," ","m","\n">> }

ExampleWants == { <<>>, <<"5","\n">>, <<"5","\n","6","\n">> }

Examples ==
    { Example(source, exc_msg, want) :
        source \in ExampleSources, exc_msg \in ExampleMessages, want \in ExampleWants }

InitDoctest == PluginAtRest /\ arg = <<>> /\ ret = NotCalled

AddExample(ex) ==
    /\ ~ret.called
    /\ Len(arg) < MaxExamples
    /\ arg' = Append(arg, ex)
    /\ UNCHANGED <<ret, pluginVars>>

CallDoctestExamplesDescription ==
    /\ ~ret.called
    /\ ret' = Returned(doctestExamplesDescription([D1 EXCEPT !.examples = arg]))
    /\ UNCHANGED <<arg, pluginVars>>

NextDoctest == (\E ex \in Examples : AddExample(ex)) \/ CallDoctestExamplesDescription

SpecDoctest == InitDoctest /\ [][NextDoctest]_vars

\* the quotes before position i of a source
QuotesBefore(source, i) == Cardinality({j \in 1..(i - 1) : source[j] = "'"})

\* where the comments of a source start: a '#' outside a string literal
CommentStarts(source) ==
    {i \in 1..Len(source) : source[i] = "#" /\ QuotesBefore(source, i) % 2 = 0}

HasComment(ex) == CommentStarts(ex.source) # {}

Raises(ex) == ex.exc_msg # PyNone

HasOutput(ex) == ex.want # <<>>

Telling(ex) == HasComment(ex) \/ Raises(ex) \/ HasOutput(ex)

\* text on one line, without the white space around it
OneLine(text) == strip([i \in 1..Len(text) |-> IF text[i] = "\n" THEN " " ELSE text[i]])

\* the spec of a telling example: the comment first, then the exception, then the output
SpecOfExample(ex) ==
    IF HasComment(ex)
    THEN LET i == CHOOSE k \in CommentStarts(ex.source) :
                      \A j \in CommentStarts(ex.source) : k <= j
         IN  OneLine(SubSeq(ex.source, 1, i - 1)) \o <<" ">>
                 \o OneLine(SubSeq(ex.source, i + 1, Len(ex.source)))
    ELSE IF Raises(ex)
    THEN OneLine(ex.source) \o <<" ","t","h","r","o","w","s"," ","\"">>
             \o OneLine(ex.exc_msg) \o <<"\"">>
    ELSE OneLine(ex.source) \o <<" ","r","e","t","u","r","n","s"," ">> \o OneLine(ex.want)

\* how many of the first i examples are telling
TellingUpTo(examples, i) == Cardinality({j \in 1..i : Telling(examples[j])})

\* C5: doctestExamplesDescription yields one spec per example that has an output,
\* raises an exception or has a comment, in the examples' order ("<source>
\* <comment>", "<source> throws "<exc_msg>"", "<source> returns <want>", each part
\* on one line and stripped), and nothing for an example that has none of the three.
C5_OneSpecPerTellingExample ==
    ret.called =>
        /\ Len(ret.val) = TellingUpTo(arg, Len(arg))
        /\ \A i \in 1..Len(arg) :
              Telling(arg[i]) /\ TellingUpTo(arg, i) <= Len(ret.val) =>
                  ret.val[TellingUpTo(arg, i)] = SpecOfExample(arg[i])

\* the sources whose every '#' starts the one comment
PlainHashes(ex) ==
    Cardinality({i \in 1..Len(ex.source) : ex.source[i] = "#"}) =
        Cardinality(CommentStarts(ex.source) \cap {i \in 1..Len(ex.source) :
            \A j \in 1..(i - 1) : ex.source[j] # "#"})

\* the same statement for doctests whose sources have no '#' but the one that
\* starts a comment: there the code does as the documentation says
C5_HoldsWhenHashesAreComments ==
    ret.called /\ (\A i \in 1..Len(arg) : PlainHashes(arg[i])) =>
        /\ Len(ret.val) = TellingUpTo(arg, Len(arg))
        /\ \A i \in 1..Len(arg) :
              Telling(arg[i]) => ret.val[TellingUpTo(arg, i)] = SpecOfExample(arg[i])

(* testContext and noseFunctionDescription of a function test *)

MaxArgs == 2

ArgValues == {2, 8, 12}

\* a nose FunctionTestCase of module test_b: generated by test_g or not, with
\* or without a description attribute and a docstring
FunctionTests ==
    { [F1 EXCEPT !.descriptor = descriptor, !.has_description = has,
                 !.description = IF has THEN description ELSE PyNone,
                 !.func_doc = func_doc] :
        descriptor \in {NoneId, "GenG"}, has \in BOOLEAN,
        description \in {<<"d">>, <<>>}, func_doc \in {PyNone, <<"g","d","o","c">>} }

InitGenerator == PluginAtRest /\ arg \in FunctionTests /\ ret = NotCalled

\* one more yielded argument
AppendArg(value) ==
    /\ ~ret.called
    /\ Len(arg.arg) < MaxArgs
    /\ arg' = [arg EXCEPT !.arg = Append(@, value)]
    /\ UNCHANGED <<ret, pluginVars>>

CallTestDescription ==
    /\ ~ret.called
    /\ ret' = Returned([context |-> testContext(arg), spec |-> testDescription(arg)])
    /\ UNCHANGED <<arg, pluginVars>>

NextGenerator == (\E value \in ArgValues : AppendArg(value)) \/ CallTestDescription

SpecGenerator == InitGenerator /\ [][NextGenerator]_vars

\* the decimal digits of the yielded values
Decimal(n) ==
    CASE n = 2 -> <<"2">>
      [] n = 8 -> <<"8">>
      [] n = 12 -> <<"1", "2">>

\* the arguments, each after the first behind ", "
Listed(args) ==
    Flatten([i \in 1..Len(args) |->
                IF i = 1 THEN Decimal(args[i]) ELSE <<",", " ">> \o Decimal(args[i])])

\* C6: a test yielded by a generator (a FunctionTestCase with a descriptor) has
\* the generator as its context, not test.context, and as its spec its own
\* description attribute when it has one, else "holds for " and the yielded
\* arguments joined with ", "; never the docstring or the name of the function.
C6_GeneratorContextAndSpec ==
    ret.called /\ isinstance(arg, "FunctionTestCase") /\ arg.descriptor # NoneId =>
        /\ ret.val.context = arg.descriptor
        /\ ret.val.context # arg.context
        /\ ret.val.spec.kind = "str"
        /\ arg.has_description => ret.val.spec.val = arg.description
        /\ ~arg.has_description =>
              ret.val.spec.val = <<"h","o","l","d","s"," ","f","o","r"," ">> \o Listed(arg.arg)
        /\ ret.val.spec.val # <<"g","d","o","c">>
        /\ ret.val.spec.val # <<"f">>

\* "holds for 12, 8" for a generator that has a docstring
C6_Witness ==
    /\ ret.called
    /\ arg.descriptor = "GenG"
    /\ ~arg.has_description
    /\ arg.func_doc = <<"g","d","o","c">>
    /\ arg.arg = <<12, 8>>
    /\ ret.val.spec.val = <<"h","o","l","d","s"," ","f","o","r"," ","1","2",","," ","8">>

(* dispatch_on_type *)

MaxEntries == 3

TestTypes == {"MethodTestCase", "FunctionTestCase", "DocTestCase", "TestCase"}

\* a test object of any mix of the test types, with a spec of its own for
\* every description function
Instances ==
    { [Object EXCEPT !.id = "I", !.types = types,
                     !.method_name = <<"t","e","s","t","_","m">>,
                     !.func_name = <<"t","e","s","t","_","f">>,
                     !.testMethodName = <<"t","e","s","t","_","u">>,
                     !.examples = << Example(<<"a","\n">>, PyNone, <<"5","\n">>) >>] :
        types \in SUBSET TestTypes }

InitDispatch ==
    /\ PluginAtRest
    /\ arg \in {[dispatch_table |-> <<>>, instance |-> i] : i \in Instances}
    /\ ret = NotCalled

\* one more (type, func) entry; its func is named by its place in the table
AppendEntry(type) ==
    /\ ~ret.called
    /\ Len(arg.dispatch_table) < MaxEntries
    /\ arg' = [arg EXCEPT !.dispatch_table = Append(@, <<type, Len(@) + 1>>)]
    /\ UNCHANGED <<ret, pluginVars>>

CallDispatch ==
    /\ ~ret.called
    /\ ret' = Returned(
          [funcs |-> dispatch_on_type(arg.dispatch_table, arg.instance),
           description |-> testDescription(arg.instance),
           printed |-> print_spec(OutputStream_init, "plain", arg.instance, PyNone)])
    /\ UNCHANGED <<arg, pluginVars>>

NextDispatch == (\E type \in TestTypes \cup {"True"} : AppendEntry(type)) \/ CallDispatch

SpecDispatch == InitDispatch /\ [][NextDispatch]_vars

\* entry i of the table is for the instance
EntryFits(i) ==
    \/ arg.dispatch_table[i][1] = "True"
    \/ arg.dispatch_table[i][1] \in arg.instance.types

\* C9: dispatch_on_type calls the handler of the first entry, in table order,
\* whose type is True or a type of the instance, and no other; it calls none and
\* returns None when no entry fits.  So testDescription never describes a nose
\* MethodTestCase or FunctionTestCase by unittestMethodDescription, and
\* print_spec prints nothing for a test of no supported type.
C9_FirstMatchingHandlerOnly ==
    ret.called =>
        /\ (\A i \in 1..Len(arg.dispatch_table) : ~EntryFits(i)) => ret.val.funcs = <<>>
        /\ \A i \in 1..Len(arg.dispatch_table) :
              EntryFits(i) /\ (\A j \in 1..(i - 1) : ~EntryFits(j)) =>
                  ret.val.funcs = <<arg.dispatch_table[i][2]>>
        /\ "MethodTestCase" \in arg.instance.types =>
              ret.val.description = StrDesc(<<"m">>)
        /\ "FunctionTestCase" \in arg.instance.types
              /\ "MethodTestCase" \notin arg.instance.types =>
                  ret.val.description = StrDesc(<<"f">>)
        /\ arg.instance.types = {"TestCase"} => ret.val.description = StrDesc(<<"u">>)
        /\ arg.instance.types = {} =>
              /\ ret.val.description = NoDesc
              /\ ret.val.printed = OutputStream_init

\* a nose method test, which two entries of a table fit
C9_Witness ==
    /\ ret.called
    /\ arg.instance.types = {"MethodTestCase", "TestCase"}
    /\ Len(arg.dispatch_table) = 3
    /\ ~EntryFits(1) /\ EntryFits(2) /\ EntryFits(3)
    /\ ret.val.funcs = <<2>>

====
